---- MODULE Spec2Model ----
(***************************************************************************)
(* Model of the SBK_HT16K33 driver (src/src/SBK_HT16K33.h, .cpp): the      *)
(* per-device address and row-capacity tables, the calloc'ed frame buffer  *)
(* of 16-bit column words, and the I2C traffic each public method emits    *)
(* through Wire.                                                           *)
(*                                                                         *)
(* One action per public method.  A method runs to completion in one step  *)
(* (the driver is single threaded and synchronous).  The sketch that owns  *)
(* the driver is modelled as a caller that makes one call, looks at what   *)
(* the call returned and at what it put on the bus, and then goes on to    *)
(* the next call (Return).                                                 *)
(***************************************************************************)
EXTENDS Integers, Sequences, FiniteSets, TLC

(***************************************************************************)
(* Program constants.                                                      *)
(***************************************************************************)
HT16K33_CMD_RAM == 0
HT16K33_CMD_SETUP == 128
HT16K33_CMD_DIMMING == 224
HT16K33_DISPLAY_ON == 1
HT16K33_BLINK_OFF == 0
HT16K33_OSC_ON == 33
_defaultRowBufferSize == 8
_defaultColBufferSize == 8
MaxDevices == 8
BaseAddress == 112
LastAddress == 119
DefaultBrightness == 8

(***************************************************************************)
(* Bounds of the model: the arguments the caller draws from.  Every        *)
(* argument is a uint8_t in the code.                                      *)
(***************************************************************************)
MaxDevArg == 1

\* devsNum handed to the constructor: below the range, and inside it
ReqDevs == {0, 2}
CtorDevs == {0, 1, 8, 9, 255}
\* device indices: managed ones, unmanaged ones below 8, and 8 itself
DevArgs == (0 .. MaxDevArg) \cup {MaxDevices}
\* rows: in range for every capacity, for 12 and 16, for 16 only, for none
RowArgs == {0, 8, 15, 16}
\* columns: in range, and the first one out of range
ColArgs == {0, 8}
\* LEDs: every row and column of device 0, and rows 0 and 8 of column 0 of
\* every device index
LedArgs == ({0} \X RowArgs \X ColArgs) \cup (DevArgs \X {0, 8} \X {0})
\* brightness levels: the default, the largest 4-bit one, two beyond 4 bits
BrightArgs == {8, 15, 31, 255}
\* addresses: just below the range, its two ends, just above it
AddrArgs == {111, 112, 119, 120}
\* row capacities: the three packages and an unsupported count
RowsCountArgs == {8, 12, 16, 10}
\* what an array entry the constructor never wrote may hold
Garbage == {0, 255}

\* _buffer is a pointer: nullptr, or a block of 16-bit words on the heap
NULL == [allocated |-> FALSE, words |-> <<>>]
Void == "void"

VARIABLES
    requested,   \* the devsNum argument the constructor was called with
    _devsNum,    \* uint8_t _devsNum
    _i2c_addr,   \* uint8_t _i2c_addr[8]
    _maxRows,    \* uint8_t _maxRows[8]
    _buffer,     \* uint16_t *_buffer: NULL, or the block it points to
    wireBegun,   \* whether Wire.begin() has been called
    phase,       \* "Uninitialized" until the first begin(), then "Ready" or
                 \* "Disabled" as the latest begin() got its buffer or not
    call,        \* the call the sketch has just made (NoCall between calls)
    ret,         \* what that call returned
    wire,        \* the Wire events that call emitted, in order
    serial,      \* what that call printed on Serial
    scen,        \* progress through clear(); setLed(d,r,c,true); show()
    touched      \* the buffer and table indices that call read or wrote

vars == <<requested, _devsNum, _i2c_addr, _maxRows, _buffer, wireBegun, phase, call, ret, wire, serial, scen, touched>>

(***************************************************************************)
(* Integer helpers: C operators on unsigned values.                        *)
(***************************************************************************)
\* constrain with the upper limit left out
constrainLowOnly(amt, low, high) ==
    IF amt < low THEN low ELSE amt

constrain(amt, low, high) ==
    IF amt < low THEN low ELSE IF amt > high THEN high ELSE amt

RECURSIVE BitOr(_, _)
BitOr(a, b) ==
    IF a = 0 THEN b
    ELSE IF b = 0 THEN a
    ELSE (IF a % 2 = 1 \/ b % 2 = 1 THEN 1 ELSE 0) + 2 * BitOr(a \div 2, b \div 2)

RECURSIVE BitAnd(_, _)
BitAnd(a, b) ==
    IF a = 0 \/ b = 0 THEN 0
    ELSE (IF a % 2 = 1 /\ b % 2 = 1 THEN 1 ELSE 0) + 2 * BitAnd(a \div 2, b \div 2)

\* x << n and x >> n
Shl(x, n) == x * (2 ^ n)
Shr(x, n) == x \div (2 ^ n)

\* ~x truncated to the 16 bits of a buffer word
Not16(x) == 65535 - (x % 65536)

(***************************************************************************)
(* Getters of the header.                                                  *)
(***************************************************************************)
maxRows(devIdx) == _maxRows[devIdx]

maxColumns == _defaultColBufferSize

_colIndex(devIdx, colIdx) == (devIdx * _defaultColBufferSize + colIdx) % 256

\* _buffer[index]; flat index 0 is the first element of the sequence
Word(buf, index) == buf.words[index + 1]

(***************************************************************************)
(* The bus: Wire.beginTransmission(addr), Wire.write(byte) and             *)
(* Wire.endTransmission() as events.                                       *)
(***************************************************************************)
BeginTx(addr) == <<"beginTransmission", addr>>
WriteEv(byte) == <<"write", byte>>
EndTx == <<"endTransmission", 0>>

\* a transaction whose endTransmission is never called
TxLeftOpen(addr, bytes) ==
    <<BeginTx(addr)>> \o [k \in 1 .. Len(bytes) |-> WriteEv(bytes[k])]

\* one transaction: beginTransmission, one write per byte, endTransmission
Tx(addr, bytes) ==
    <<BeginTx(addr)>> \o [k \in 1 .. Len(bytes) |-> WriteEv(bytes[k])] \o <<EndTx>>

(***************************************************************************)
(* The methods as functions of the object's fields: what each one writes   *)
(* to the frame buffer and what it puts on the bus.  buf is the value of   *)
(* _buffer at the point of the call (begin() calls clear and show after    *)
(* it has replaced _buffer).                                               *)
(***************************************************************************)

\* setAddressRejects without the upper end of the address range
setAddressRejectsLowOnly(devIdx, addr) ==
    devIdx >= _devsNum \/ addr < BaseAddress

\* setAddress: the early return of the first if
setAddressRejects(devIdx, addr) ==
    devIdx >= _devsNum \/ addr < BaseAddress \/ addr > LastAddress

\* setDriverRows: the early return of the first if
setDriverRowsRejects(devIdx, rowsCount) ==
    devIdx >= MaxDevices \/ (rowsCount # 8 /\ rowsCount # 12 /\ rowsCount # 16)

\* clearWords zeroing the whole buffer where the code zeroes one device's words
clearWordsWhole(buf, devIdx) ==
    IF devIdx >= _devsNum THEN buf
    ELSE IF buf # NULL
         THEN [buf EXCEPT !.words = [k \in DOMAIN buf.words |-> 0]]
         ELSE buf

\* clear(devIdx): the buffer it leaves
clearWords(buf, devIdx) ==
    IF devIdx >= _devsNum THEN buf
    ELSE IF buf # NULL
         THEN [buf EXCEPT !.words =
                 [k \in DOMAIN buf.words |->
                     IF \E i \in 0 .. maxColumns - 1 : k = _colIndex(devIdx, i) + 1
                     THEN 0 ELSE buf.words[k]]]
         ELSE buf

\* clear(): the loop from device d on
RECURSIVE clearFrom(_, _)
clearFrom(buf, d) ==
    IF d < _devsNum THEN clearFrom(clearWords(buf, d), d + 1) ELSE buf

\* setBrightnessEvents without the mask that keeps the level to 4 bits
setBrightnessEventsUnmasked(devIdx, brightness) ==
    IF devIdx >= _devsNum THEN <<>>
    ELSE Tx(_i2c_addr[devIdx], <<BitOr(HT16K33_CMD_DIMMING, brightness) % 256>>)

\* setBrightness(devIdx, brightness): the events it emits
setBrightnessEvents(devIdx, brightness) ==
    IF devIdx >= _devsNum THEN <<>>
    ELSE Tx(_i2c_addr[devIdx], <<BitOr(HT16K33_CMD_DIMMING, BitAnd(brightness, 15))>>)

\* setBrightness(brightness): the loop from device d on
RECURSIVE setBrightnessFrom(_, _)
setBrightnessFrom(d, brightness) ==
    IF d < _devsNum
    THEN setBrightnessEvents(d, brightness) \o setBrightnessFrom(d + 1, brightness)
    ELSE <<>>

\* ledRejects without the test of the row against the device's capacity
ledRejectsAnyRow(buf, devIdx, rowIdx, colIdx) ==
    buf = NULL \/ devIdx >= _devsNum \/ colIdx >= maxColumns

\* setLed and getLed: the early return of the first if
ledRejects(buf, devIdx, rowIdx, colIdx) ==
    buf = NULL \/ devIdx >= _devsNum \/ rowIdx >= maxRows(devIdx) \/ colIdx >= maxColumns

\* setLedWords shifting the mask by the column where the code shifts by the row
setLedWordsByColumn(buf, devIdx, rowIdx, colIdx, state) ==
    IF buf = NULL \/ devIdx >= _devsNum \/ rowIdx >= maxRows(devIdx) \/ colIdx >= maxColumns
    THEN buf
    ELSE LET index == _colIndex(devIdx, colIdx)
             old == buf.words[index + 1]
         IN  [buf EXCEPT !.words[index + 1] =
                  IF state THEN BitOr(old, Shl(1, colIdx)) % 65536
                  ELSE BitAnd(old, Not16(Shl(1, colIdx)))]

\* setLedWords storing the mask where the code ors it in or masks it out
setLedWordsAssign(buf, devIdx, rowIdx, colIdx, state) ==
    IF buf = NULL \/ devIdx >= _devsNum \/ rowIdx >= maxRows(devIdx) \/ colIdx >= maxColumns
    THEN buf
    ELSE [buf EXCEPT !.words[_colIndex(devIdx, colIdx) + 1] =
              IF state THEN Shl(1, rowIdx) % 65536 ELSE 0]

\* setLed: the buffer it leaves
setLedWords(buf, devIdx, rowIdx, colIdx, state) ==
    IF ledRejects(buf, devIdx, rowIdx, colIdx) THEN buf
    ELSE LET index == _colIndex(devIdx, colIdx)
             old == Word(buf, index)
             new == IF state
                    THEN BitOr(old, Shl(1, rowIdx)) % 65536
                    ELSE BitAnd(old, Not16(Shl(1, rowIdx)))
         IN  [buf EXCEPT !.words[index + 1] = new]

\* setLed: what it prints
setLedPrints(buf, devIdx, rowIdx, colIdx, state) ==
    IF ledRejects(buf, devIdx, rowIdx, colIdx) THEN <<>>
    ELSE <<"[setLed] Dev: ", devIdx, " Row: ", rowIdx, " Col: ", colIdx,
           " State: ", IF state THEN "ON" ELSE "OFF">>

\* getLed: the value it returns
getLedValue(buf, devIdx, rowIdx, colIdx) ==
    IF ledRejects(buf, devIdx, rowIdx, colIdx) THEN FALSE
    ELSE BitAnd(Shr(Word(buf, _colIndex(devIdx, colIdx)), rowIdx), 1) = 1

\* frameBytes sending the MSB of each word before its LSB
frameBytesMsbFirst(buf, devIdx) ==
    [k \in 1 .. 2 * maxColumns |->
        LET data == buf.words[_colIndex(devIdx, (k - 1) \div 2) + 1]
        IN  IF k % 2 = 1 THEN BitAnd(Shr(data, 8), 255) ELSE BitAnd(data, 255)]

\* _write: the 16 data bytes, LSB then MSB of each column word
frameBytes(buf, devIdx) ==
    [k \in 1 .. 2 * maxColumns |->
        LET colIdx == (k - 1) \div 2
            data == Word(buf, _colIndex(devIdx, colIdx))
        IN  IF k % 2 = 1 THEN BitAnd(data, 255) ELSE BitAnd(Shr(data, 8), 255)]

\* _write without the test for a missing buffer: the frame is read from
\* wherever the null pointer leads, here zeroes
_writeUnguarded(buf, devIdx) ==
    IF devIdx >= _devsNum THEN <<>>
    ELSE Tx(_i2c_addr[devIdx],
            <<HT16K33_CMD_RAM>>
                \o (IF buf = NULL THEN [k \in 1 .. 2 * maxColumns |-> 0]
                    ELSE frameBytes(buf, devIdx)))

\* _write(devIdx), which is all show(devIdx) does: the events it emits
_write(buf, devIdx) ==
    IF buf = NULL \/ devIdx >= _devsNum THEN <<>>
    ELSE Tx(_i2c_addr[devIdx], <<HT16K33_CMD_RAM>> \o frameBytes(buf, devIdx))

\* showFrom walking the devices from the last one down
RECURSIVE showFromDown(_, _)
showFromDown(buf, d) ==
    IF d < _devsNum THEN showFromDown(buf, d + 1) \o _write(buf, d) ELSE <<>>

\* show(): the loop from device d on
RECURSIVE showFrom(_, _)
showFrom(buf, d) ==
    IF d < _devsNum THEN _write(buf, d) \o showFrom(buf, d + 1) ELSE <<>>

\* beginFrom sending the setup command before the oscillator is started
RECURSIVE beginFromSetupFirst(_, _)
beginFromSetupFirst(buf, i) ==
    IF i < _devsNum
    THEN LET addr == _i2c_addr[i]
             cleared == clearWords(buf, i)
             rest == beginFromSetupFirst(cleared, i + 1)
         IN  [buf |-> rest.buf,
              ev  |-> Tx(addr, <<BitOr(BitOr(HT16K33_CMD_SETUP, HT16K33_DISPLAY_ON),
                                       HT16K33_BLINK_OFF)>>)
                      \o Tx(addr, <<HT16K33_OSC_ON>>)
                      \o setBrightnessEvents(i, DefaultBrightness)
                      \o _write(cleared, i)
                      \o rest.ev]
    ELSE [buf |-> buf, ev |-> <<>>]

\* begin(): the body of its loop for device i, then the rest of the loop
RECURSIVE beginFrom(_, _)
beginFrom(buf, i) ==
    IF i < _devsNum
    THEN LET addr == _i2c_addr[i]
             cleared == clearWords(buf, i)
             rest == beginFrom(cleared, i + 1)
         IN  [buf |-> rest.buf,
              ev  |-> Tx(addr, <<HT16K33_OSC_ON>>)
                      \o Tx(addr, <<BitOr(BitOr(HT16K33_CMD_SETUP, HT16K33_DISPLAY_ON),
                                          HT16K33_BLINK_OFF)>>)
                      \o setBrightnessEvents(i, DefaultBrightness)
                      \o _write(cleared, i)
                      \o rest.ev]
    ELSE [buf |-> buf, ev |-> <<>>]

\* calloc(maxColumns() * _devsNum, sizeof(uint16_t)) when it succeeds
calloc(n) == [allocated |-> TRUE, words |-> [k \in 1 .. n |-> 0]]

(***************************************************************************)
(* The memory each method touches: the flat indices at which it reads or   *)
(* writes _buffer[...], and the indices at which it reads or writes        *)
(* _i2c_addr[...] or _maxRows[...].  The || of the guards short-circuits:   *)
(* an operand is evaluated only when those on its left are false.          *)
(***************************************************************************)
NoTouch == [words |-> {}, tables |-> {}]

Join(a, b) == [words |-> a.words \cup b.words, tables |-> a.tables \cup b.tables]

\* setAddress: _i2c_addr[devIdx] = addr
setAddressTouches(devIdx, addr) ==
    IF setAddressRejects(devIdx, addr) THEN NoTouch
    ELSE [words |-> {}, tables |-> {devIdx}]

\* setDriverRows: _maxRows[devIdx] = rowsCount
setDriverRowsTouches(devIdx, rowsCount) ==
    IF setDriverRowsRejects(devIdx, rowsCount) THEN NoTouch
    ELSE [words |-> {}, tables |-> {devIdx}]

\* clear(devIdx): _buffer[_colIndex(devIdx, col)] = 0 for each column
clearTouches(buf, devIdx) ==
    IF buf = NULL \/ devIdx >= _devsNum THEN NoTouch
    ELSE [words |-> {_colIndex(devIdx, col) : col \in 0 .. maxColumns - 1},
          tables |-> {}]

\* clear(): the loop from device d on
RECURSIVE clearTouchesFrom(_, _)
clearTouchesFrom(buf, d) ==
    IF d < _devsNum
    THEN Join(clearTouches(buf, d), clearTouchesFrom(buf, d + 1))
    ELSE NoTouch

\* setBrightness(devIdx, brightness): Wire.beginTransmission(_i2c_addr[devIdx])
setBrightnessTouches(devIdx) ==
    IF devIdx >= _devsNum THEN NoTouch
    ELSE [words |-> {}, tables |-> {devIdx}]

\* setBrightness(brightness): the loop from device d on
RECURSIVE setBrightnessTouchesFrom(_)
setBrightnessTouchesFrom(d) ==
    IF d < _devsNum
    THEN Join(setBrightnessTouches(d), setBrightnessTouchesFrom(d + 1))
    ELSE NoTouch

\* ledTouches with the row test evaluated ahead of the device test
ledTouchesRowFirst(buf, devIdx, rowIdx, colIdx) ==
    [words  |-> IF ledRejects(buf, devIdx, rowIdx, colIdx) THEN {}
                ELSE {_colIndex(devIdx, colIdx)},
     tables |-> IF buf = NULL THEN {} ELSE {devIdx}]

\* setLed and getLed: maxRows(devIdx) in the guard reads _maxRows[devIdx] once
\* the buffer and the device index have passed; then _buffer[idx]
ledTouches(buf, devIdx, rowIdx, colIdx) ==
    [words  |-> IF ledRejects(buf, devIdx, rowIdx, colIdx) THEN {}
                ELSE {_colIndex(devIdx, colIdx)},
     tables |-> IF buf = NULL \/ devIdx >= _devsNum THEN {} ELSE {devIdx}]

\* _write: _i2c_addr[devIdx], then _buffer[_colIndex(devIdx, i)] for each column
_writeTouches(buf, devIdx) ==
    IF buf = NULL \/ devIdx >= _devsNum THEN NoTouch
    ELSE [words |-> {_colIndex(devIdx, i) : i \in 0 .. maxColumns - 1},
          tables |-> {devIdx}]

\* show(): the loop from device d on
RECURSIVE showTouchesFrom(_, _)
showTouchesFrom(buf, d) ==
    IF d < _devsNum
    THEN Join(_writeTouches(buf, d), showTouchesFrom(buf, d + 1))
    ELSE NoTouch

\* begin(): for device i its two commands to _i2c_addr[i], setBrightness(i),
\* clear(i) and show(i); then the rest of the loop
RECURSIVE beginTouchesFrom(_, _)
beginTouchesFrom(buf, i) ==
    IF i < _devsNum
    THEN Join([words |-> {}, tables |-> {i}],
         Join(setBrightnessTouches(i),
         Join(clearTouches(buf, i),
         Join(_writeTouches(buf, i), beginTouchesFrom(buf, i + 1)))))
    ELSE NoTouch

(***************************************************************************)
(* The caller's side of a call.                                            *)
(***************************************************************************)
NoCall == [op |-> "none", devIdx |-> 0, rowIdx |-> 0, colIdx |-> 0, state |-> FALSE, arg |-> 0]

Call(op, devIdx, rowIdx, colIdx, state, arg) ==
    [op |-> op, devIdx |-> devIdx, rowIdx |-> rowIdx, colIdx |-> colIdx,
     state |-> state, arg |-> arg]

NoScen == [n |-> 0, devIdx |-> 0, rowIdx |-> 0, colIdx |-> 0]

Idle == call = NoCall

(***************************************************************************)
(* The state after SBK_HT16K33(devsNum).  The constructor writes entries   *)
(* 0 .. _devsNum-1 of the two tables; the others hold whatever was in      *)
(* memory.                                                                 *)
(***************************************************************************)
\* the constructor called with devsNum; g is what the table entries it does
\* not write happen to hold
SBK_HT16K33(devsNum, g) ==
    /\ requested = devsNum
    /\ _devsNum = constrain(devsNum, 1, MaxDevices)
    /\ _i2c_addr = [i \in 0 .. MaxDevices - 1 |->
                      IF i < constrain(devsNum, 1, MaxDevices)
                      THEN (BaseAddress + i) % 256 ELSE g]
    /\ _maxRows = [i \in 0 .. MaxDevices - 1 |->
                      IF i < constrain(devsNum, 1, MaxDevices)
                      THEN _defaultRowBufferSize ELSE g]
    /\ _buffer = NULL
    /\ wireBegun = FALSE
    /\ phase = "Uninitialized"
    /\ call = NoCall
    /\ ret = Void
    /\ wire = <<>>
    /\ serial = <<>>
    /\ scen = NoScen
    /\ touched = NoTouch

Init ==
    \E devsNum \in ReqDevs, g \in Garbage : SBK_HT16K33(devsNum, g)

(***************************************************************************)
(* The public methods.                                                     *)
(***************************************************************************)
setAddress ==
    \E devIdx \in DevArgs, addr \in AddrArgs :
        /\ Idle
        /\ _i2c_addr' = IF setAddressRejects(devIdx, addr) THEN _i2c_addr
                        ELSE [_i2c_addr EXCEPT ![devIdx] = addr]
        /\ ret' = IF setAddressRejects(devIdx, addr) THEN 0 ELSE 1
        /\ touched' = setAddressTouches(devIdx, addr)
        /\ call' = Call("setAddress", devIdx, 0, 0, FALSE, addr)
        /\ wire' = <<>> /\ serial' = <<>> /\ scen' = NoScen
        /\ UNCHANGED <<requested, _devsNum, _maxRows, _buffer, wireBegun, phase>>

setDriverRows ==
    \E devIdx \in DevArgs, rowsCount \in RowsCountArgs :
        /\ Idle
        /\ _maxRows' = IF setDriverRowsRejects(devIdx, rowsCount) THEN _maxRows
                       ELSE [_maxRows EXCEPT ![devIdx] = rowsCount]
        /\ touched' = setDriverRowsTouches(devIdx, rowsCount)
        /\ call' = Call("setDriverRows", devIdx, 0, 0, FALSE, rowsCount)
        /\ ret' = Void /\ wire' = <<>> /\ serial' = <<>> /\ scen' = NoScen
        /\ UNCHANGED <<requested, _devsNum, _i2c_addr, _buffer, wireBegun, phase>>

begin ==
    \E allocated \in BOOLEAN :
        /\ Idle
        /\ IF allocated
           THEN LET done == beginFrom(calloc(maxColumns * _devsNum), 0)
                IN  /\ _buffer' = done.buf
                    /\ wireBegun' = TRUE
                    /\ wire' = done.ev
           ELSE /\ _buffer' = NULL
                /\ wire' = <<>>
                /\ UNCHANGED wireBegun
        /\ phase' = IF allocated THEN "Ready" ELSE "Disabled"
        /\ touched' = IF allocated
                      THEN beginTouchesFrom(calloc(maxColumns * _devsNum), 0)
                      ELSE NoTouch
        /\ call' = Call("begin", 0, 0, 0, allocated, 0)
        /\ ret' = Void /\ serial' = <<>> /\ scen' = NoScen
        /\ UNCHANGED <<requested, _devsNum, _i2c_addr, _maxRows>>

clear ==
    \E devIdx \in DevArgs :
        /\ Idle
        /\ _buffer' = clearWords(_buffer, devIdx)
        /\ touched' = clearTouches(_buffer, devIdx)
        /\ call' = Call("clear", devIdx, 0, 0, FALSE, 0)
        /\ ret' = Void /\ wire' = <<>> /\ serial' = <<>> /\ scen' = NoScen
        /\ UNCHANGED <<requested, _devsNum, _i2c_addr, _maxRows, wireBegun, phase>>

clearAll ==
    /\ Idle
    /\ _buffer' = clearFrom(_buffer, 0)
    /\ touched' = clearTouchesFrom(_buffer, 0)
    /\ call' = Call("clear()", 0, 0, 0, FALSE, 0)
    /\ scen' = IF _buffer # NULL THEN [NoScen EXCEPT !.n = 1] ELSE NoScen
    /\ ret' = Void /\ wire' = <<>> /\ serial' = <<>>
    /\ UNCHANGED <<requested, _devsNum, _i2c_addr, _maxRows, wireBegun, phase>>

setBrightness ==
    \E devIdx \in DevArgs, brightness \in BrightArgs :
        /\ Idle
        /\ wire' = setBrightnessEvents(devIdx, brightness)
        /\ touched' = setBrightnessTouches(devIdx)
        /\ call' = Call("setBrightness", devIdx, 0, 0, FALSE, brightness)
        /\ ret' = Void /\ serial' = <<>> /\ scen' = NoScen
        /\ UNCHANGED <<requested, _devsNum, _i2c_addr, _maxRows, _buffer, wireBegun, phase>>

setBrightnessAll ==
    \E brightness \in BrightArgs :
        /\ Idle
        /\ wire' = setBrightnessFrom(0, brightness)
        /\ touched' = setBrightnessTouchesFrom(0)
        /\ call' = Call("setBrightness()", 0, 0, 0, FALSE, brightness)
        /\ ret' = Void /\ serial' = <<>> /\ scen' = NoScen
        /\ UNCHANGED <<requested, _devsNum, _i2c_addr, _maxRows, _buffer, wireBegun, phase>>

\* setLed pushing the device's frame to the bus once the bit is written
setLedFlushing ==
    \E led \in LedArgs, state \in BOOLEAN :
      LET devIdx == led[1]
          rowIdx == led[2]
          colIdx == led[3]
      IN
        /\ Idle
        /\ _buffer' = setLedWords(_buffer, devIdx, rowIdx, colIdx, state)
        /\ serial' = setLedPrints(_buffer, devIdx, rowIdx, colIdx, state)
        /\ touched' = ledTouches(_buffer, devIdx, rowIdx, colIdx)
        /\ call' = Call("setLed", devIdx, rowIdx, colIdx, state, 0)
        /\ scen' = NoScen
        /\ ret' = Void
        /\ wire' = _write(setLedWords(_buffer, devIdx, rowIdx, colIdx, state), devIdx)
        /\ UNCHANGED <<requested, _devsNum, _i2c_addr, _maxRows, wireBegun, phase>>

setLed ==
    \E led \in LedArgs, state \in BOOLEAN :
      LET devIdx == led[1]
          rowIdx == led[2]
          colIdx == led[3]
      IN
        /\ Idle
        /\ _buffer' = setLedWords(_buffer, devIdx, rowIdx, colIdx, state)
        /\ serial' = setLedPrints(_buffer, devIdx, rowIdx, colIdx, state)
        /\ touched' = ledTouches(_buffer, devIdx, rowIdx, colIdx)
        /\ call' = Call("setLed", devIdx, rowIdx, colIdx, state, 0)
        /\ scen' = IF scen.n = 1 /\ state /\ _buffer # NULL /\ devIdx < _devsNum
                      /\ rowIdx < _maxRows[devIdx] /\ colIdx < 8
                   THEN [n |-> 2, devIdx |-> devIdx, rowIdx |-> rowIdx, colIdx |-> colIdx]
                   ELSE NoScen
        /\ ret' = Void /\ wire' = <<>>
        /\ UNCHANGED <<requested, _devsNum, _i2c_addr, _maxRows, wireBegun, phase>>

getLed ==
    \E led \in LedArgs :
      LET devIdx == led[1]
          rowIdx == led[2]
          colIdx == led[3]
      IN
        /\ Idle
        /\ ret' = getLedValue(_buffer, devIdx, rowIdx, colIdx)
        /\ touched' = ledTouches(_buffer, devIdx, rowIdx, colIdx)
        /\ call' = Call("getLed", devIdx, rowIdx, colIdx, FALSE, 0)
        /\ wire' = <<>> /\ serial' = <<>> /\ scen' = NoScen
        /\ UNCHANGED <<requested, _devsNum, _i2c_addr, _maxRows, _buffer, wireBegun, phase>>

show ==
    \E devIdx \in DevArgs :
        /\ Idle
        /\ wire' = _write(_buffer, devIdx)
        /\ touched' = _writeTouches(_buffer, devIdx)
        /\ call' = Call("show", devIdx, 0, 0, FALSE, 0)
        /\ ret' = Void /\ serial' = <<>> /\ scen' = NoScen
        /\ UNCHANGED <<requested, _devsNum, _i2c_addr, _maxRows, _buffer, wireBegun, phase>>

showAll ==
    /\ Idle
    /\ wire' = showFrom(_buffer, 0)
    /\ touched' = showTouchesFrom(_buffer, 0)
    /\ call' = Call("show()", 0, 0, 0, FALSE, 0)
    /\ scen' = IF scen.n = 2 THEN [scen EXCEPT !.n = 3] ELSE NoScen
    /\ ret' = Void /\ serial' = <<>>
    /\ UNCHANGED <<requested, _devsNum, _i2c_addr, _maxRows, _buffer, wireBegun, phase>>

\* the call has returned and the sketch goes on
Return ==
    /\ ~Idle
    /\ call' = NoCall
    /\ ret' = Void /\ wire' = <<>> /\ serial' = <<>>
    /\ touched' = NoTouch
    /\ scen' = IF scen.n = 3 THEN NoScen ELSE scen
    /\ UNCHANGED <<requested, _devsNum, _i2c_addr, _maxRows, _buffer, wireBegun, phase>>

Next ==
    \/ setAddress
    \/ setDriverRows
    \/ begin
    \/ clear
    \/ clearAll
    \/ setBrightness
    \/ setBrightnessAll
    \/ setLed
    \/ getLed
    \/ show
    \/ showAll
    \/ Return

Spec == Init /\ [][Next]_vars

(***************************************************************************)
(* Construction with any device count a sketch can pass, followed by the   *)
(* methods whose effect does not depend on which LEDs are lit.             *)
(***************************************************************************)
InitCtor ==
    \E devsNum \in CtorDevs, g \in Garbage : SBK_HT16K33(devsNum, g)

NextCtor ==
    \/ setAddress
    \/ setDriverRows
    \/ begin
    \/ clear
    \/ clearAll
    \/ setBrightness
    \/ setBrightnessAll
    \/ getLed
    \/ show
    \/ showAll
    \/ Return

SpecCtor == InitCtor /\ [][NextCtor]_vars

(***************************************************************************)
(* What the properties below are stated in: the words of the claims, not   *)
(* the operators of the methods.                                           *)
(***************************************************************************)
Ready == _buffer # NULL

\* (d, r, c) names an LED of a managed device, inside its configured rows
InRange(d, r, c) == d < _devsNum /\ r < _maxRows[d] /\ c < 8

\* bit r of the word of column c of device d
LedBit(buf, d, r, c) == (buf.words[d * 8 + c + 1] \div (2 ^ r)) % 2

\* C1: on a Ready controller, once setLed(d,r,c,state) with (d,r,c) in range
\* has returned, getLed(d,r,c) returns state: true after setting the LED,
\* false after clearing it again.
C1_SetLedThenGetLed ==
    (call.op = "setLed" /\ Ready /\ InRange(call.devIdx, call.rowIdx, call.colIdx))
        => getLedValue(_buffer, call.devIdx, call.rowIdx, call.colIdx) = call.state

\* a row-15 LED of a 16-row device has just been switched on, next to
\* another lit LED of the same column
C1_Witness ==
    /\ call.op = "setLed" /\ call.state /\ Ready
    /\ call.rowIdx = 15 /\ InRange(call.devIdx, call.rowIdx, call.colIdx)
    /\ LedBit(_buffer, call.devIdx, 0, call.colIdx) = 1
    /\ getLedValue(_buffer, call.devIdx, call.rowIdx, call.colIdx)

C3_ClearDevice ==
    /\ [](call.op = "clear" /\ Ready /\ call.devIdx < _devsNum
            => \A r \in 0 .. _maxRows[call.devIdx] - 1, c \in 0 .. 7 :
                   ~getLedValue(_buffer, call.devIdx, r, c))
    /\ [](call.op = "clear()" /\ Ready
            => \A k \in 1 .. _devsNum * 8 : _buffer.words[k] = 0)
    /\ [][(call'.op = "clear" /\ Ready /\ call'.devIdx < _devsNum)
            => \A d \in (0 .. _devsNum - 1) \ {call'.devIdx}, c \in 0 .. 7 :
                   _buffer'.words[d * 8 + c + 1] = _buffer.words[d * 8 + c + 1]]_vars

\* device 0 has just been cleared while device 1 keeps a lit LED
C3_Witness ==
    /\ call.op = "clear" /\ Ready /\ call.devIdx = 0 /\ _devsNum = 2
    /\ LedBit(_buffer, 1, 8, 0) = 1
    /\ \A c \in 0 .. 7 : _buffer.words[c + 1] = 0

\* the events of one transaction to addr that writes the given bytes
OneTx(addr, bytes) ==
    <<<<"beginTransmission", addr>>>>
        \o [k \in 1 .. Len(bytes) |-> <<"write", bytes[k]>>]
        \o <<<<"endTransmission", 0>>>>

\* the 17 bytes of device d's frame: 0x00, then low and high byte of each of
\* its 8 column words, columns ascending
FramePayload(buf, d) ==
    [k \in 1 .. 17 |->
        IF k = 1 THEN 0
        ELSE LET c == (k - 2) \div 2
                 w == buf.words[d * 8 + c + 1]
             IN  IF k % 2 = 0 THEN w % 256 ELSE (w \div 256) % 256]

\* C4: on a Ready controller show(d), d < _devsNum, emits exactly one
\* transaction, to the address now configured for d, of exactly 17 bytes:
\* 0x00, then for columns 0..7 the low byte and the high byte of word
\* d*8+c; a buffer whose only non-zero word is word 0 of device 0 = 0x0001
\* yields 0x00, 0x01, 0x00 and fourteen zero bytes.
C4_ShowFrame ==
    /\ (call.op = "show" /\ Ready /\ call.devIdx < _devsNum)
         => wire = OneTx(_i2c_addr[call.devIdx], FramePayload(_buffer, call.devIdx))
    /\ (call.op = "show" /\ Ready /\ call.devIdx = 0
          /\ \A k \in 1 .. 8 : _buffer.words[k] = (IF k = 1 THEN 1 ELSE 0))
         => wire = OneTx(_i2c_addr[0], <<0, 1, 0, 0, 0, 0, 0, 0, 0, 0, 0, 0, 0, 0, 0, 0, 0>>)

\* show(0) has sent a word with bits in both of its bytes to an address that
\* setAddress moved away from the default
C4_Witness ==
    /\ call.op = "show" /\ Ready /\ call.devIdx = 0
    /\ _i2c_addr[0] = 119
    /\ _buffer.words[1] = 32769
    /\ Len(wire) = 19

\* C5: on a Ready controller with N devices, clear(); setLed(d,r,c,true);
\* show() with (d,r,c) in range issues exactly N begin/end pairs, one per
\* device in ascending index order, and the only non-zero bit of the N
\* payloads is bit r of the column-c word of device d's payload.
C5_ClearSetShow ==
    scen.n = 3 =>
        LET OnlyBit(i) ==
                [k \in 1 .. 17 |->
                    IF i = scen.devIdx /\ scen.rowIdx < 8 /\ k = 2 + 2 * scen.colIdx
                    THEN 2 ^ scen.rowIdx
                    ELSE IF i = scen.devIdx /\ scen.rowIdx >= 8 /\ k = 3 + 2 * scen.colIdx
                    THEN 2 ^ (scen.rowIdx - 8)
                    ELSE 0]
        IN  /\ call.op = "show()"
            /\ Len(wire) = 19 * _devsNum
            /\ Cardinality({k \in 1 .. Len(wire) : wire[k][1] = "beginTransmission"}) = _devsNum
            /\ Cardinality({k \in 1 .. Len(wire) : wire[k][1] = "endTransmission"}) = _devsNum
            /\ \A i \in 0 .. _devsNum - 1 :
                   SubSeq(wire, 19 * i + 1, 19 * i + 19) = OneTx(_i2c_addr[i], OnlyBit(i))

\* the three calls have been made on two devices, lighting row 8 of device 1
C5_Witness ==
    /\ scen.n = 3 /\ _devsNum = 2
    /\ scen.devIdx = 1 /\ scen.rowIdx = 8 /\ scen.colIdx = 0
    /\ Len(wire) = 38

\* C6: setBrightness(d, level), d < _devsNum, emits one transaction to d's
\* address with the single byte 0xE0 | (level & 0x0F) whatever the level
\* (31 and 15 both give 0xEF); setBrightness(level) emits that byte to every
\* device, one transaction each, ascending; setBrightness(d, level) with
\* d >= _devsNum emits nothing.
C6_Brightness ==
    /\ (call.op = "setBrightness" /\ call.devIdx < _devsNum)
         => wire = OneTx(_i2c_addr[call.devIdx], <<224 + (call.arg % 16)>>)
    /\ (call.op = "setBrightness" /\ call.devIdx < _devsNum /\ call.arg \in {15, 31})
         => wire = OneTx(_i2c_addr[call.devIdx], <<239>>)
    /\ (call.op = "setBrightness" /\ call.devIdx >= _devsNum) => wire = <<>>
    /\ call.op = "setBrightness()"
         => /\ Len(wire) = 3 * _devsNum
            /\ \A i \in 0 .. _devsNum - 1 :
                   SubSeq(wire, 3 * i + 1, 3 * i + 3)
                       = OneTx(_i2c_addr[i], <<224 + (call.arg % 16)>>)

\* level 31 has gone out as 0xEF to device 1
C6_Witness ==
    /\ call.op = "setBrightness" /\ call.devIdx = 1 /\ _devsNum = 2 /\ call.arg = 31
    /\ wire = OneTx(_i2c_addr[1], <<239>>)

\* C7: setAddress(d, a) returns 0 and leaves the address table as it was
\* when d >= _devsNum or a is outside 0x70..0x77, and otherwise returns 1 and
\* changes entry d alone, to a; setDriverRows(d, rows) with d < _devsNum
\* leaves the row-capacity table as it was when rows is none of 8, 12, 16
\* and otherwise changes entry d alone, to rows.
C7_ValidatedSetters ==
    [][/\ call'.op = "setAddress"
          => IF call'.devIdx >= _devsNum \/ call'.arg < 112 \/ call'.arg > 119
             THEN ret' = 0 /\ _i2c_addr' = _i2c_addr
             ELSE ret' = 1 /\ _i2c_addr' = [_i2c_addr EXCEPT ![call'.devIdx] = call'.arg]
       /\ (call'.op = "setDriverRows" /\ call'.devIdx < _devsNum)
          => IF call'.arg \notin {8, 12, 16}
             THEN _maxRows' = _maxRows
             ELSE _maxRows' = [_maxRows EXCEPT ![call'.devIdx] = call'.arg]]_vars

\* setAddress has refused 0x78 for a managed device whose address an earlier
\* call had changed, and a managed device has 12 rows
C7_Witness ==
    /\ call.op = "setAddress" /\ call.devIdx = 1 /\ _devsNum = 2 /\ call.arg = 120
    /\ ret = 0
    /\ _i2c_addr[1] = 119
    /\ _maxRows[0] = 12

\* C8: setDriverRows(d, rows) with d >= _devsNum changes no entry of the
\* row-capacity table, whatever rows is.
C8_SetDriverRowsUnmanaged ==
    [][(call'.op = "setDriverRows" /\ call'.devIdx >= _devsNum)
          => _maxRows' = _maxRows]_vars

\* the transactions of begin() for device i: oscillator on, display on and
\* blink off, brightness 8, an all-zero frame
BeginTxs(i) ==
    OneTx(_i2c_addr[i], <<33>>)
        \o OneTx(_i2c_addr[i], <<129>>)
        \o OneTx(_i2c_addr[i], <<232>>)
        \o OneTx(_i2c_addr[i], [k \in 1 .. 17 |-> 0])

\* C9: a begin() whose allocation succeeds emits, device by device in
\* ascending order, exactly four transactions to the device's address:
\* [0x21], [0x81], [0xE8], [0x00 and sixteen 0x00]; afterwards every word of
\* the buffer is zero.
C9_BeginSequence ==
    (call.op = "begin" /\ call.state)
        => /\ Len(wire) = 28 * _devsNum
           /\ \A i \in 0 .. _devsNum - 1 :
                  SubSeq(wire, 28 * i + 1, 28 * i + 28) = BeginTxs(i)
           /\ Cardinality({k \in 1 .. Len(wire) : wire[k][1] = "beginTransmission"})
                  = 4 * _devsNum
           /\ _buffer # NULL
           /\ Len(_buffer.words) = 8 * _devsNum
           /\ \A k \in 1 .. Len(_buffer.words) : _buffer.words[k] = 0

\* begin() has succeeded on two devices, the second at a changed address
C9_Witness ==
    /\ call.op = "begin" /\ call.state /\ _devsNum = 2
    /\ _i2c_addr[1] = 112
    /\ Len(wire) = 56

\* C10: a begin() whose allocation fails emits nothing and leaves the
\* controller Disabled, without a buffer; while it is Disabled setLed and
\* clear change no state, getLed returns false whatever its arguments, and
\* show(d) and show() emit nothing.
C10_DisabledInert ==
    /\ []((call.op = "begin" /\ ~call.state)
            => wire = <<>> /\ phase = "Disabled" /\ _buffer = NULL)
    /\ [](phase = "Disabled" => _buffer = NULL)
    /\ []((phase = "Disabled" /\ call.op = "getLed") => ret = FALSE)
    /\ []((phase = "Disabled" /\ call.op \in {"show", "show()"}) => wire = <<>>)
    /\ [][(phase = "Disabled" /\ call'.op \in {"setLed", "clear", "clear()"})
            => /\ UNCHANGED <<requested, _devsNum, _i2c_addr, _maxRows, _buffer, wireBegun, phase>>
               /\ wire' = <<>> /\ serial' = <<>>]_vars

\* show() has stayed silent on a controller that was Ready before a later
\* begin() failed to get its buffer
C10_Witness ==
    /\ phase = "Disabled" /\ wireBegun
    /\ call.op = "show()" /\ wire = <<>>
    /\ _devsNum = 2

\* C11: once the controller is Disabled it stays Disabled: whatever is
\* called next, further begin() calls included, the buffer is never present
\* again.
C11_DisabledForever ==
    [][phase = "Disabled" => (phase' = "Disabled" /\ _buffer' = NULL)]_vars

\* C12 as claimed: of clear, setBrightness, setLed and show, only show puts
\* events on the bus; clear, setBrightness and setLed emit nothing.
C12_OnlyShowEmits ==
    call.op \in {"clear", "clear()", "setBrightness", "setBrightness()", "setLed"}
        => wire = <<>>

\* C12 as amended: clear and setLed emit nothing; show and setBrightness
\* both emit, setBrightness one dimming transaction per managed device it
\* is aimed at.
C12_ClearAndSetLedMemoryOnly ==
    /\ call.op \in {"clear", "clear()", "setLed"} => wire = <<>>
    /\ (call.op = "setBrightness" /\ call.devIdx < _devsNum) => Len(wire) = 3
    /\ call.op = "setBrightness()" => Len(wire) = 3 * _devsNum
    /\ (call.op = "show" /\ Ready /\ call.devIdx < _devsNum) => Len(wire) = 19
    /\ (call.op = "show()" /\ Ready) => Len(wire) = 19 * _devsNum

\* setLed has lit an LED of device 1 and the bus has stayed silent
C12_Witness ==
    /\ call.op = "setLed" /\ call.state /\ Ready
    /\ call.devIdx = 1 /\ InRange(call.devIdx, call.rowIdx, call.colIdx)
    /\ LedBit(_buffer, 1, call.rowIdx, call.colIdx) = 1
    /\ wire = <<>>

\* a bus trace made of whole transactions only: begin, one or more writes, end
WellBracketed(w) ==
    /\ Len(w) > 0 =>
        /\ w[1][1] = "beginTransmission"
        /\ w[Len(w)][1] = "endTransmission"
    /\ \A k \in 1 .. Len(w) - 1 :
        /\ w[k][1] = "beginTransmission" => w[k + 1][1] = "write"
        /\ w[k][1] = "write" => w[k + 1][1] \in {"write", "endTransmission"}
        /\ w[k][1] = "endTransmission" => w[k + 1][1] = "beginTransmission"

\* C13: the bus events of every public operation form a sequence of whole
\* transactions: each beginTransmission is followed by at least one write and
\* then an endTransmission before the next beginTransmission, no write is
\* outside a transaction, and none is open when the operation returns.
C13_WellBracketed ==
    WellBracketed(wire)

\* show() has flushed two devices, two transactions back to back
C13_Witness ==
    /\ call.op = "show()" /\ Ready /\ _devsNum = 2
    /\ Len(wire) = 38
    /\ wire[19] = EndTx /\ wire[20] = BeginTx(_i2c_addr[1])

\* C14: in every reachable state the addresses of two distinct managed
\* devices differ.
C14_AddressesUnique ==
    \A i, j \in 0 .. _devsNum - 1 : i # j => _i2c_addr[i] # _i2c_addr[j]

\* C15: the device count is the requested count clamped into 1..8 and never
\* changes; right after construction device i < count has address 0x70 + i
\* and capacity 8; thereafter every managed device's address is in
\* 0x70..0x77 and its capacity in {8, 12, 16}.
C15_Construction ==
    /\ \A i \in 0 .. _devsNum - 1 : _i2c_addr[i] = 112 + i /\ _maxRows[i] = 8
    /\ [](/\ _devsNum \in 1 .. 8
          /\ _devsNum = (IF requested < 1 THEN 1 ELSE IF requested > 8 THEN 8
                         ELSE requested)
          /\ \A i \in 0 .. _devsNum - 1 :
                /\ _i2c_addr[i] \in 112 .. 119
                /\ _maxRows[i] \in {8, 12, 16})
    /\ [][_devsNum' = _devsNum]_vars

\* a controller asked for 255 devices manages 8; its last device still has
\* the address it was constructed with, device 1 has since been given
\* another address and 16 rows
C15_Witness ==
    /\ requested = 255 /\ _devsNum = 8
    /\ _i2c_addr[7] = 119 /\ _maxRows[7] = 8
    /\ _i2c_addr[1] = 119 /\ _maxRows[1] = 16

\* C16: an in-range setLed(d,r,c,state) on a Ready controller changes at
\* most bit r of the word at flat index d*8+c: the other 15 bits of that
\* word, every other word, the address table, the row table, the device
\* count and the bus stay as they were.
C16_SetLedLocal ==
    [][(call'.op = "setLed" /\ Ready
            /\ InRange(call'.devIdx, call'.rowIdx, call'.colIdx))
        => /\ _buffer'.allocated
           /\ Len(_buffer'.words) = Len(_buffer.words)
           /\ \A k \in 1 .. Len(_buffer.words) :
                 k # call'.devIdx * 8 + call'.colIdx + 1
                     => _buffer'.words[k] = _buffer.words[k]
           /\ \A b \in 0 .. 15 :
                 b # call'.rowIdx
                     => LedBit(_buffer', call'.devIdx, b, call'.colIdx)
                            = LedBit(_buffer, call'.devIdx, b, call'.colIdx)
           /\ _i2c_addr' = _i2c_addr
           /\ _maxRows' = _maxRows
           /\ _devsNum' = _devsNum
           /\ wire' = <<>>]_vars

\* row 0 of a column of device 0 has just been switched off while row 15 of
\* the same column stays lit, on a device since narrowed to 8 rows
C16_Witness ==
    /\ call.op = "setLed" /\ ~call.state /\ Ready
    /\ call.devIdx = 0 /\ call.rowIdx = 0 /\ call.colIdx = 0
    /\ _maxRows[0] = 8
    /\ _buffer.words[1] = 32768

\* C17: the frame buffer is allocated at most once: once a begin() has
\* succeeded no later operation, begin() included, allocates a buffer again;
\* and a buffer that is present has deviceCount * 8 words.
C17_AllocatedOnce ==
    /\ [](Ready => Len(_buffer.words) = _devsNum * 8)
    /\ [][wireBegun => ~(call'.op = "begin" /\ call'.state)]_vars

\* no word of a managed device holds a bit at or above the device's capacity
\* (nothing to hold while there is no buffer)
WithinCapacity ==
    Ready => \A d \in 0 .. _devsNum - 1 : \A c \in 0 .. 7 :
                 _buffer.words[d * 8 + c + 1] < 2 ^ _maxRows[d]

\* C18 as claimed: in every reachable state no buffer word of device d has a
\* bit set at a position >= d's current capacity, whatever the interleaving
\* of setLed, clear and setDriverRows.
C18_NoBitAboveCapacity ==
    WithinCapacity

\* C18 as amended: every operation other than setDriverRows keeps the words
\* within the capacities, and so does a setDriverRows that lowers none;
\* setDriverRows never touches the buffer, so bits above a lowered capacity
\* stay where they are.
C18_KeptByAllButLowering ==
    /\ [][(call'.op # "setDriverRows" /\ WithinCapacity) => WithinCapacity']_vars
    /\ [][call'.op = "setDriverRows" => _buffer' = _buffer]_vars
    /\ [][(/\ call'.op = "setDriverRows"
           /\ WithinCapacity
           /\ \A d \in 0 .. _devsNum - 1 : _maxRows'[d] >= _maxRows[d])
          => WithinCapacity']_vars

\* the top row of a 16-row device has just been lit, within capacity
C18_Witness ==
    /\ call.op = "setLed" /\ call.state /\ call.rowIdx = 15 /\ call.devIdx = 0
    /\ Ready /\ _maxRows[0] = 16
    /\ LedBit(_buffer, 0, 15, call.colIdx) = 1
    /\ WithinCapacity

\* C19: a controller that is not Ready (no begin() yet, or the latest
\* begin() failed to allocate) emits no bus event, whichever operation is
\* called with whichever arguments.
C19_SilentUnlessReady ==
    (phase # "Ready" /\ ~Idle) => wire = <<>>

\* C20: whatever begin, clear, setLed, getLed, show, setBrightness and
\* setAddress are called with, each access to the frame buffer is made while
\* the buffer is allocated and at a flat index in 0 .. deviceCount*8 - 1, and
\* each access to the address table or the row table is at an index below
\* deviceCount.
C20_AccessesInBounds ==
    call.op \in {"begin", "clear", "clear()", "setLed", "getLed", "show", "show()",
                 "setBrightness", "setBrightness()", "setAddress"}
        => /\ touched.words # {} => _buffer.allocated
           /\ touched.words \subseteq 0 .. _devsNum * 8 - 1
           /\ touched.tables \subseteq 0 .. _devsNum - 1

\* getLed has read the last word of a two-device buffer and the row table
\* entry of device 1
C20_Witness ==
    /\ call.op = "getLed" /\ _devsNum = 2 /\ call.devIdx = 1
    /\ touched.words # {} /\ touched.tables = {1}
    /\ \E w \in touched.words : w >= 8

====
